---- MODULE Spec2Model ----
(***************************************************************************)
(* A model of the image attestation service (src/app.js): the pure parser  *)
(* parseAIResponse, JSON.parse of the caller's coordinates, and the        *)
(* /upload-image handler as a state machine with one step per await.       *)
(*                                                                         *)
(* JavaScript strings are sequences of one-character strings, so that      *)
(* split, trim, startsWith and replace are computed character by           *)
(* character.  A JavaScript value is a record [t |-> type, v |-> payload]. *)
(***************************************************************************)
EXTENDS Integers, Sequences, FiniteSets, TLC

(***************************************************************************)
(* Bounds of the model.                                                    *)
(***************************************************************************)
\* The largest number of generated lines in a text handed to the parser.
MaxLines == 2

(***************************************************************************)
(* JavaScript values.                                                      *)
(***************************************************************************)
JUndefined == [t |-> "undefined", v |-> <<>>]
JNull == [t |-> "null", v |-> <<>>]
JStr(s) == [t |-> "string", v |-> s]
JNum(digits) == [t |-> "number", v |-> digits]
JArr(elems) == [t |-> "array", v |-> elems]

(***************************************************************************)
(* String.prototype methods used by the parser.                            *)
(***************************************************************************)
IsWhitespace(c) == c \in {" ", "\t", "\r", "\n"}

\* s.split("\n"): the segments between line feeds; "" splits to [""].
RECURSIVE SplitFrom(_, _, _)
SplitFrom(s, i, cur) ==
  IF i > Len(s) THEN <<cur>>
  ELSE IF s[i] = "\n" THEN <<cur>> \o SplitFrom(s, i + 1, <<>>)
  ELSE SplitFrom(s, i + 1, Append(cur, s[i]))

Split(s) == SplitFrom(s, 1, <<>>)

\* s.trim(): s without its leading and trailing whitespace.
RECURSIVE TrimStart(_)
TrimStart(s) ==
  IF s # <<>> /\ IsWhitespace(Head(s)) THEN TrimStart(Tail(s)) ELSE s

RECURSIVE TrimEnd(_)
TrimEnd(s) ==
  IF s # <<>> /\ IsWhitespace(s[Len(s)])
  THEN TrimEnd(SubSeq(s, 1, Len(s) - 1))
  ELSE s

Trim(s) == TrimEnd(TrimStart(s))

\* s.startsWith(p)
StartsWith(s, p) == Len(s) >= Len(p) /\ SubSeq(s, 1, Len(p)) = p

\* s.indexOf(p), 1-based; 0 when p does not occur in s.
IndexOf(s, p) ==
  LET hits == {i \in 1..(Len(s) - Len(p) + 1) : SubSeq(s, i, i + Len(p) - 1) = p}
  IN IF hits = {} THEN 0 ELSE CHOOSE i \in hits : \A j \in hits : i <= j

\* s.replace(p, r) with a string pattern: the first occurrence only.
Replace(s, p, r) ==
  LET i == IndexOf(s, p)
  IN IF i = 0 THEN s
     ELSE SubSeq(s, 1, i - 1) \o r \o SubSeq(s, i + Len(p), Len(s))

(***************************************************************************)
(* parseAIResponse (src/app.js 66-103).                                    *)
(***************************************************************************)
LabelEventName == <<"E","v","e","n","t"," ","N","a","m","e",":">>
LabelEventDescription ==
  <<"E","v","e","n","t"," ","D","e","s","c","r","i","p","t","i","o","n",":">>
LabelOccasion == <<"O","c","c","a","s","i","o","n",":">>

\* The memory_description literal of the normal return (line 97).
GeneratedMemoryDescription ==
  <<"G","e","n","e","r","a","t","e","d"," ","f","r","o","m"," ","O","p","e",
    "n","A","I"," ","a","n","a","l","y","s","i","s"," ","o","f"," ","t","h",
    "e"," ","i","m","a","g","e",".">>

defaultValues ==
  [event_name |-> <<"E","t","h","I","n","d","i","a","2","0","2","4">>,
   event_description |->
     <<"E","x","c","l","u","s","i","v","e"," ","E","t","h","I","n","d","i",
       "a"," ","2","0","2","4"," ","b","y"," ","d","e","v","f","o","l","i",
       "o">>,
   occasion |-> <<"H","a","c","k","a","t","h","o","n">>,
   location_coordinates |->
     JArr(<<JStr(<<"1","2">>), JStr(<<"7","2">>)>>),
   memory_description |->
     <<"H","a","c","k","e","r"," ","d","a","y"," ","f","o","r"," ","t","h",
       "e"," ","a","w","e","s","o","m","e"," ","d","e","v","s">>]

\* A callback that keeps the value a key already has.
ParseLineFirstWins(data, line) ==
  IF StartsWith(line, LabelEventName)
  THEN data @@ ("event_name" :> Trim(Replace(line, LabelEventName, <<>>)))
  ELSE IF StartsWith(line, LabelEventDescription)
  THEN data @@ ("event_description" :>
                  Trim(Replace(line, LabelEventDescription, <<>>)))
  ELSE IF StartsWith(line, LabelOccasion)
  THEN data @@ ("occasion" :> Trim(Replace(line, LabelOccasion, <<>>)))
  ELSE data

\* A callback that keeps the value a key already has when the line's
\* remainder is empty.
ParseLineKeepsNonEmpty(data, line) ==
  LET set(key, label) ==
        IF Trim(Replace(line, label, <<>>)) = <<>> /\ key \in DOMAIN data
        THEN data
        ELSE (key :> Trim(Replace(line, label, <<>>))) @@ data
  IN IF StartsWith(line, LabelEventName)
     THEN set("event_name", LabelEventName)
     ELSE IF StartsWith(line, LabelEventDescription)
     THEN set("event_description", LabelEventDescription)
     ELSE IF StartsWith(line, LabelOccasion)
     THEN set("occasion", LabelOccasion)
     ELSE data

\* The callback of lines.forEach: data after one (already trimmed) line.
\* data is a function from the keys assigned so far to their strings.
ParseLine(data, line) ==
  IF StartsWith(line, LabelEventName)
  THEN ("event_name" :> Trim(Replace(line, LabelEventName, <<>>))) @@ data
  ELSE IF StartsWith(line, LabelEventDescription)
  THEN ("event_description" :>
          Trim(Replace(line, LabelEventDescription, <<>>))) @@ data
  ELSE IF StartsWith(line, LabelOccasion)
  THEN ("occasion" :> Trim(Replace(line, LabelOccasion, <<>>))) @@ data
  ELSE data

RECURSIVE ForEachLine(_, _)
ForEachLine(data, lines) ==
  IF lines = <<>> THEN data
  ELSE ForEachLine(ParseLine(data, Head(lines)), Tail(lines))

\* const data = {} (line 79)
EmptyData == [k \in {} |-> <<>>]

\* data.key ?? fallback: only undefined falls back.
OrDefaultNullish(data, key, fallback) ==
  IF key \in DOMAIN data THEN data[key] ELSE fallback

\* data.key || fallback: undefined and "" are falsy.
OrDefault(data, key, fallback) ==
  IF key \in DOMAIN data /\ data[key] # <<>> THEN data[key] ELSE fallback

\* The try block (lines 76-98) for a string argument.
ParseBody(text) ==
  LET lines == [i \in DOMAIN Split(text) |-> Trim(Split(text)[i])]
      data == ForEachLine(EmptyData, lines)
  IN [event_name |-> OrDefault(data, "event_name", defaultValues.event_name),
      event_description |->
        OrDefault(data, "event_description", defaultValues.event_description),
      occasion |-> OrDefault(data, "occasion", defaultValues.occasion),
      location_coordinates |-> defaultValues.location_coordinates,
      memory_description |-> GeneratedMemoryDescription]

\* An event record not yet assigned.
NoRecord ==
  [event_name |-> <<>>, event_description |-> <<>>, occasion |-> <<>>,
   location_coordinates |-> JUndefined, memory_description |-> <<>>]

\* The try block as a whole: responseText.split is a TypeError unless
\* responseText is a string.
TryParse(responseText) ==
  IF responseText.t = "string"
  THEN [threw |-> FALSE, value |-> ParseBody(responseText.v)]
  ELSE [threw |-> TRUE, value |-> NoRecord]

\* parseAIResponse: what the call completes with.  The catch block (lines
\* 99-102) turns an error of the try block into defaultValues.
parseAIResponse(responseText) ==
  IF TryParse(responseText).threw
  THEN [threw |-> FALSE, value |-> defaultValues]
  ELSE TryParse(responseText)

(***************************************************************************)
(* JSON.parse (src/app.js 118), for JSON texts made of arrays, strings     *)
(* without escape sequences, numbers without exponent, and null.  A parse  *)
(* result is [ok, val, pos]: whether a value was read, the value, and the  *)
(* index after it.  A number's value is kept as its literal.               *)
(***************************************************************************)
IsDigit(c) == c \in {"0","1","2","3","4","5","6","7","8","9"}

JsonFail == [ok |-> FALSE, val |-> JNull, pos |-> 0]

RECURSIVE SkipWs(_, _)
SkipWs(s, i) ==
  IF i <= Len(s) /\ IsWhitespace(s[i]) THEN SkipWs(s, i + 1) ELSE i

RECURSIVE SkipDigits(_, _)
SkipDigits(s, i) ==
  IF i <= Len(s) /\ IsDigit(s[i]) THEN SkipDigits(s, i + 1) ELSE i

\* s[i] is the opening quote; the string ends at the next quote.
ParseJsonString(s, i) ==
  LET closes == {j \in (i + 1)..Len(s) : s[j] = "\""}
      j == CHOOSE k \in closes : \A m \in closes : k <= m
  IN IF closes = {} THEN JsonFail
     ELSE [ok |-> TRUE, val |-> JStr(SubSeq(s, i + 1, j - 1)), pos |-> j + 1]

\* -? (0 | [1-9][0-9]*) (. [0-9]+)?
ParseJsonNumber(s, i) ==
  LET start == IF s[i] = "-" THEN i + 1 ELSE i
      intEnd == IF start <= Len(s) /\ s[start] = "0" THEN start + 1
                ELSE SkipDigits(s, start)
      hasFrac == intEnd <= Len(s) /\ s[intEnd] = "."
      fracEnd == SkipDigits(s, intEnd + 1)
      end == IF hasFrac THEN fracEnd ELSE intEnd
  IN IF intEnd = start \/ (hasFrac /\ fracEnd = intEnd + 1) THEN JsonFail
     ELSE [ok |-> TRUE, val |-> JNum(SubSeq(s, i, end - 1)), pos |-> end]

RECURSIVE ParseJsonValue(_, _)
RECURSIVE ParseJsonElements(_, _, _)

\* The value that starts at s[i] (whitespace already skipped).
ParseJsonValue(s, i) ==
  IF i > Len(s) THEN JsonFail
  ELSE IF s[i] = "\"" THEN ParseJsonString(s, i)
  ELSE IF s[i] = "-" \/ IsDigit(s[i]) THEN ParseJsonNumber(s, i)
  ELSE IF StartsWith(SubSeq(s, i, Len(s)), <<"n","u","l","l">>)
  THEN [ok |-> TRUE, val |-> JNull, pos |-> i + 4]
  ELSE IF s[i] = "["
  THEN LET j == SkipWs(s, i + 1)
       IN IF j <= Len(s) /\ s[j] = "]"
          THEN [ok |-> TRUE, val |-> JArr(<<>>), pos |-> j + 1]
          ELSE ParseJsonElements(s, j, <<>>)
  ELSE JsonFail

\* The elements of an array from s[i] on, acc being those already read.
ParseJsonElements(s, i, acc) ==
  LET e == ParseJsonValue(s, i)
      j == SkipWs(s, e.pos)
  IN IF ~e.ok \/ j > Len(s) THEN JsonFail
     ELSE IF s[j] = "]"
     THEN [ok |-> TRUE, val |-> JArr(Append(acc, e.val)), pos |-> j + 1]
     ELSE IF s[j] = ","
     THEN ParseJsonElements(s, SkipWs(s, j + 1), Append(acc, e.val))
     ELSE JsonFail

\* String(x) of the argument: JSON.parse converts its argument to a string.
StringOf(x) ==
  IF x.t = "string" THEN x.v ELSE <<"u","n","d","e","f","i","n","e","d">>

\* JSON.parse(x): [ok |-> TRUE, val] or, on a SyntaxError, [ok |-> FALSE].
JSONParse(x) ==
  LET s == StringOf(x)
      r == ParseJsonValue(s, SkipWs(s, 1))
  IN IF r.ok /\ SkipWs(s, r.pos) = Len(s) + 1
     THEN [ok |-> TRUE, val |-> r.val]
     ELSE [ok |-> FALSE, val |-> JNull]

(***************************************************************************)
(* The arguments the parser is applied to: texts of up to MaxLines         *)
(* generated lines, the texts of the documented scenarios, and values      *)
(* that are not strings.                                                   *)
(***************************************************************************)
LineHeads == {<<>>, LabelEventName, LabelEventDescription, LabelOccasion}
LineBodies ==
  {<<>>, <<"D","e","m","o">>, <<" ","A"," ","B","\t">>,
   LabelOccasion \o <<"X">>}
\* Lines with whitespace before the label, and a line that starts like a
\* label without being one.
IndentedLines ==
  {<<" ">>,
   <<" ">> \o LabelEventName \o <<" ","A"," ","B","\t">>,
   <<"\t"," ">> \o LabelOccasion,
   <<"E","v","e","n","t"," ","N","a","m","e"," ",":","D","e","m","o">>}
GenLines == {h \o b : h \in LineHeads, b \in LineBodies} \cup IndentedLines

RECURSIVE JoinLines(_)
JoinLines(ls) ==
  IF Len(ls) = 1 THEN ls[1] ELSE ls[1] \o <<"\n">> \o JoinLines(Tail(ls))

GenTexts ==
  UNION {{JoinLines(ls) : ls \in [1..n -> GenLines]} : n \in 1..MaxLines}

\* "Event Name: Demo\nEvent Description: Test\nOccasion: Meetup"
ScenarioAText ==
  LabelEventName \o <<" ","D","e","m","o","\n">> \o
  LabelEventDescription \o <<" ","T","e","s","t","\n">> \o
  LabelOccasion \o <<" ","M","e","e","t","u","p">>

\* '{"error": "No description generated."}' (line 146)
NoDescriptionText ==
  <<"{","\"","e","r","r","o","r","\"",":"," ","\"","N","o"," ","d","e","s",
    "c","r","i","p","t","i","o","n"," ","g","e","n","e","r","a","t","e","d",
    ".","\"","}">>

ScenarioTexts ==
  {ScenarioAText, NoDescriptionText,
   LabelEventName \o <<" ","D","e","m","o","\r","\n">> \o
     LabelOccasion \o <<"\r","\n">> \o LabelEventName}

NonStrings == {JUndefined, JNull, JNum(<<"4","2">>), JArr(<<>>)}

ParseInputs == {JStr(t) : t \in GenTexts \cup ScenarioTexts} \cup NonStrings

(***************************************************************************)
(* What a request to /upload-image carries, and what the collaborators     *)
(* can answer.                                                             *)
(***************************************************************************)
\* req.body.location_coordinates with, for a valid JSON text, the value the
\* caller encoded: body is the field as received (undefined when the field
\* is absent), valid whether it is JSON, value the value it stands for.
CoordInputs ==
  { [body |-> JStr(<<"[","\"","1","2","\"",",","\"","7","2","\"","]">>),
     valid |-> TRUE,
     value |-> JArr(<<JStr(<<"1","2">>), JStr(<<"7","2">>)>>)],
    [body |-> JStr(<<" ","[","\"","-","3",".","5","\""," ",","," ","\"",
                     "8","\"","]","\n">>),
     valid |-> TRUE,
     value |-> JArr(<<JStr(<<"-","3",".","5">>), JStr(<<"8">>)>>)],
    [body |-> JStr(<<"[","]">>), valid |-> TRUE, value |-> JArr(<<>>)],
    [body |-> JStr(<<"[","1","2",",","7","2","]">>),
     valid |-> TRUE,
     value |-> JArr(<<JNum(<<"1","2">>), JNum(<<"7","2">>)>>)],
    [body |-> JStr(<<"n","u","l","l">>), valid |-> TRUE, value |-> JNull],
    [body |-> JStr(<<"[","\"","1","2","\"",",","\"","7","2","\"">>),
     valid |-> FALSE, value |-> JNull],
    [body |-> JStr(<<"1","2",",","7","2">>), valid |-> FALSE, value |-> JNull],
    [body |-> JStr(<<>>), valid |-> FALSE, value |-> JNull],
    [body |-> JUndefined, valid |-> FALSE, value |-> JNull] }

\* One request: whether multer stored an image (req.file), the coordinates
\* field, and whether the recipient field is present.
RequestInputs == [file : BOOLEAN, coord : CoordInputs, recipient : BOOLEAN]

\* response.data.IpfsHash of a successful pin.
IpfsHashes == {<<"Q","m","A">>}

\* The texts the inference service answers with.
AITexts ==
  {ScenarioAText,
   <<"A"," ","p","h","o","t","o",".">>,
   LabelEventName \o <<" "," ","\n">> \o LabelOccasion \o <<" ","X">>}

\* The completions openai.chat.completions.create resolves to: without a
\* choices array, with an empty one, with a choice without message, and
\* with a message whose content is null, "" or a text.
Completions ==
  {[hasChoices |-> FALSE, choices |-> <<>>],
   [hasChoices |-> TRUE, choices |-> <<>>],
   [hasChoices |-> TRUE,
    choices |-> <<[hasMessage |-> FALSE, content |-> JUndefined]>>]}
  \cup
  {[hasChoices |-> TRUE, choices |-> <<[hasMessage |-> TRUE, content |-> c]>>] :
     c \in {JNull, JStr(<<>>)} \cup {JStr(t) : t \in AITexts}}

\* The messages of the errors the collaborators reject with.
StoreFailures == {"Network Error", "Request failed with status code 401"}
InferFailures == {"Connection error.", "400 Invalid image."}
SubmitFailures == {"insufficient funds", "could not detect network"}
ConfirmFailures == {"timeout", "transaction execution reverted"}
UnlinkFailures == {"EPERM: operation not permitted, unlink"}

\* The identifiers tx.wait() resolves to.
AttestationUIDs == {"0xa1"}

\* The steps of the pipeline, in the order the handler takes them.
StageOrder ==
  <<"Received", "Stored", "Described", "Parsed", "Encoded", "Submitted",
    "Confirmed">>

(***************************************************************************)
(* State.                                                                  *)
(***************************************************************************)
VARIABLES
  env,          \* process.env: whether PRIVATE_KEY is set
  req,          \* per request: its inputs (RequestInputs)
  pc,           \* per request: the await the handler is suspended at
  local,        \* per request: the handler's local variables
  files,        \* the uploads directory: requests whose temporary file exists
  unlinks,      \* per request: successful deletions of its temporary file
  calls,        \* per request: calls begun to each collaborator
  stages,       \* per request: the pipeline steps completed, in order
  failed,       \* per request: the step that threw and the error's message
  responses,    \* per request: the HTTP responses sent
  easSigner,    \* the signer the module-level eas object is connected to
  ledger,       \* the attestations broadcast to the ledger, in order
  parseInput,   \* the argument of the parser call under study
  parseOutput,  \* what that call returned, <<>> before it has returned
  proc,         \* per /process-image request: its file, position, responses
  uploads       \* /process-image's uploads directory: requests whose file exists

handlerVars ==
  <<env, req, pc, local, files, unlinks, calls, stages, failed, responses,
    easSigner, ledger>>
parseVars == <<parseInput, parseOutput>>
procVars == <<proc, uploads>>
vars == <<handlerVars, parseVars, procVars>>

NoFailure == [stage |-> "none", message |-> "none"]
NoSigner == [key |-> FALSE, req |-> 0]

InitialLocal ==
  [parsedCoordinates |-> JUndefined,
   ipfsUrl |-> JUndefined,
   completion |-> <<>>,
   responseText |-> JUndefined,
   schemaValues |-> NoRecord,
   encodedData |-> <<>>,
   sentWith |-> NoSigner,
   attestationUID |-> "none"]

\* No request has been made to /process-image.
ProcIdle ==
  /\ proc = <<>>
  /\ uploads = {}

\* No request has been made.
HandlerIdle ==
  /\ env = [PRIVATE_KEY |-> TRUE]
  /\ req = <<>>
  /\ pc = <<>>
  /\ local = <<>>
  /\ files = {}
  /\ unlinks = <<>>
  /\ calls = <<>>
  /\ stages = <<>>
  /\ failed = <<>>
  /\ responses = <<>>
  /\ easSigner = NoSigner
  /\ ledger = <<>>

\* The requests R have arrived: multer has stored each uploaded image under
\* a name of its own (the request's number) and the handlers are about to
\* run.
InitFor(R) ==
  /\ env \in [PRIVATE_KEY : BOOLEAN]
  /\ req \in [R -> RequestInputs]
  /\ pc = [r \in R |-> "entry"]
  /\ local = [r \in R |-> InitialLocal]
  /\ files = {r \in R : req[r].file}
  /\ unlinks = [r \in R |-> 0]
  /\ calls = [r \in R |-> [store |-> 0, infer |-> 0, submit |-> 0, wait |-> 0]]
  /\ stages = [r \in R |-> <<>>]
  /\ failed = [r \in R |-> NoFailure]
  /\ responses = [r \in R |-> <<>>]
  /\ easSigner = NoSigner
  /\ ledger = <<>>

(***************************************************************************)
(* The parser applied to one argument.                                     *)
(***************************************************************************)
ParseInit ==
  /\ parseInput \in ParseInputs
  /\ parseOutput = <<>>
  /\ HandlerIdle
  /\ ProcIdle

ParseCall ==
  /\ parseOutput = <<>>
  /\ parseOutput' = <<parseAIResponse(parseInput)>>
  /\ UNCHANGED <<parseInput, handlerVars, procVars>>

ParseNext == ParseCall

ParseSpec == ParseInit /\ [][ParseNext]_vars

(***************************************************************************)
(* The /upload-image handler (src/app.js 106-208), one action per await.   *)
(***************************************************************************)
GatewayPrefix ==
  <<"h","t","t","p","s",":","/","/","v","i","o","l","e","t","-","g","e","n",
    "t","l","e","-","c","o","w","-","5","1","0",".","m","y","p","i","n","a",
    "t","a",".","c","l","o","u","d","/","i","p","f","s","/">>

\* What axios.post settles to: a response carrying IpfsHash, or an error.
PinOutcomes ==
  {[ok |-> TRUE, IpfsHash |-> h, message |-> "none"] : h \in IpfsHashes}
  \cup {[ok |-> FALSE, IpfsHash |-> <<>>, message |-> m] : m \in StoreFailures}

\* pinFileToIPFS: the gateway URL of the pinned file; an error of the post
\* is logged and thrown again.
pinFileToIPFS(outcome) ==
  IF outcome.ok
  THEN [threw |-> FALSE, url |-> JStr(GatewayPrefix \o outcome.IpfsHash),
        message |-> "none"]
  ELSE [threw |-> TRUE, url |-> JUndefined, message |-> outcome.message]

\* Whether a value is truthy.
Truthy(x) ==
  CASE x.t = "string" -> x.v # <<>>
    [] x.t = "number" -> x.v \notin {<<"0">>, <<"-","0">>}
    [] x.t = "array" -> TRUE
    [] OTHER -> FALSE

\* The content as it is, without the fallback text.
ResponseTextNoFallback(completion) ==
  IF completion.choices = <<>> THEN JUndefined
  ELSE IF ~completion.choices[1].hasMessage THEN JUndefined
  ELSE completion.choices[1].content

\* completion.choices[0]?.message?.content || '{"error": ...}' (144-146),
\* for a completion that has a choices array.
ResponseText(completion) ==
  LET content ==
        IF completion.choices = <<>> THEN JUndefined
        ELSE IF ~completion.choices[1].hasMessage THEN JUndefined
        ELSE completion.choices[1].content
  IN IF Truthy(content) THEN content ELSE JStr(NoDescriptionText)

\* The parsed record without the assignment of line 150.
SchemaValuesKeepsDefault(responseText, parsedCoordinates) ==
  parseAIResponse(responseText).value

\* Lines 149-150: the parsed record with the caller's coordinates.
SchemaValues(responseText, parsedCoordinates) ==
  [parseAIResponse(responseText).value
     EXCEPT !.location_coordinates = parsedCoordinates]

IsStringArray(x) ==
  x.t = "array" /\ \A i \in DOMAIN x.v : x.v[i].t = "string"

\* schemaEncoder.encodeData (158-180): the items in schema order; a value
\* that is not of its item's declared type makes the encoder throw.
encodeData(schemaValues) ==
  IF IsStringArray(schemaValues.location_coordinates)
  THEN [threw |-> FALSE,
        data |->
          <<[name |-> "event_name", type |-> "string",
             value |-> JStr(schemaValues.event_name)],
            [name |-> "event_description", type |-> "string",
             value |-> JStr(schemaValues.event_description)],
            [name |-> "occassion", type |-> "string",
             value |-> JStr(schemaValues.occasion)],
            [name |-> "location_coordinates", type |-> "string[]",
             value |-> schemaValues.location_coordinates],
            [name |-> "memory_description", type |-> "string",
             value |-> JStr(schemaValues.memory_description)]>>]
  ELSE [threw |-> TRUE, data |-> <<>>]

\* fs.unlinkSync(path) in the directory fs: the file is removed, or the call
\* throws when there is no such file.
unlinkSync(fs, path) ==
  IF path \in fs THEN [threw |-> FALSE, files |-> fs \ {path}]
  ELSE [threw |-> TRUE, files |-> fs]

NoFileResponse ==
  [status |-> 400, body |-> [success |-> FALSE, message |-> "No file uploaded."]]

ErrorResponse(message) ==
  [status |-> 500, body |-> [success |-> FALSE, error |-> message]]

\* A success response that reports the record parsed from the description
\* text again, not the record that was encoded.
SuccessResponseReparsed(l) ==
  [status |-> 200,
   body |-> [success |-> TRUE,
             message |->
               "Image uploaded, pinned, described, and attested successfully.",
             ipfsUrl |-> l.ipfsUrl,
             schemaValues |-> parseAIResponse(l.responseText).value,
             attestationUID |-> l.attestationUID]]

SuccessResponse(l) ==
  [status |-> 200,
   body |-> [success |-> TRUE,
             message |->
               "Image uploaded, pinned, described, and attested successfully.",
             ipfsUrl |-> l.ipfsUrl,
             schemaValues |-> l.schemaValues,
             attestationUID |-> l.attestationUID]]

\* A catch block that answers the error and lets the handler go on.
CatchContinues(r, stage, message) ==
  /\ failed' = [failed EXCEPT ![r] = [stage |-> stage, message |-> message]]
  /\ responses' = [responses EXCEPT ![r] = Append(@, ErrorResponse(message))]
  /\ pc' = pc

\* The catch block (204-207): the error's message is answered with 500.
Catch(r, stage, message) ==
  /\ failed' = [failed EXCEPT ![r] = [stage |-> stage, message |-> message]]
  /\ responses' = [responses EXCEPT ![r] = Append(@, ErrorResponse(message))]
  /\ pc' = [pc EXCEPT ![r] = "done"]

\* A handler that starts the upload to the content store before it parses
\* the coordinates.
UploadImagePinsFirst(r) ==
  /\ pc[r] = "entry"
  /\ \/ /\ ~req[r].file
        /\ responses' = [responses EXCEPT ![r] = Append(@, NoFileResponse)]
        /\ pc' = [pc EXCEPT ![r] = "done"]
        /\ UNCHANGED <<local, calls, stages, failed>>
     \/ /\ req[r].file
        /\ ~JSONParse(req[r].coord.body).ok
        /\ stages' = [stages EXCEPT ![r] = Append(@, "Received")]
        /\ calls' = [calls EXCEPT ![r].store = @ + 1]
        /\ Catch(r, "validate", "Unexpected token in JSON")
        /\ UNCHANGED local
     \/ /\ req[r].file
        /\ JSONParse(req[r].coord.body).ok
        /\ stages' = [stages EXCEPT ![r] = Append(@, "Received")]
        /\ local' = [local EXCEPT ![r].parsedCoordinates =
                       JSONParse(req[r].coord.body).val]
        /\ calls' = [calls EXCEPT ![r].store = @ + 1]
        /\ pc' = [pc EXCEPT ![r] = "pin"]
        /\ UNCHANGED <<failed, responses>>
  /\ UNCHANGED <<env, req, files, unlinks, easSigner, ledger, parseVars, procVars>>

\* A handler whose 400 answer is not followed by a return: it goes on into
\* the try block, where reading file.path throws and the catch answers again.
UploadImageNoReturn(r) ==
  /\ pc[r] = "entry"
  /\ \/ /\ ~req[r].file
        /\ responses' =
             [responses EXCEPT ![r] =
                Append(Append(@, NoFileResponse),
                       ErrorResponse("Cannot read properties of undefined"))]
        /\ pc' = [pc EXCEPT ![r] = "done"]
        /\ UNCHANGED <<local, calls, stages, failed>>
     \/ /\ req[r].file
        /\ ~JSONParse(req[r].coord.body).ok
        /\ stages' = [stages EXCEPT ![r] = Append(@, "Received")]
        /\ Catch(r, "validate", "Unexpected token in JSON")
        /\ UNCHANGED <<local, calls>>
     \/ /\ req[r].file
        /\ JSONParse(req[r].coord.body).ok
        /\ stages' = [stages EXCEPT ![r] = Append(@, "Received")]
        /\ local' = [local EXCEPT ![r].parsedCoordinates =
                       JSONParse(req[r].coord.body).val]
        /\ calls' = [calls EXCEPT ![r].store = @ + 1]
        /\ pc' = [pc EXCEPT ![r] = "pin"]
        /\ UNCHANGED <<failed, responses>>
  /\ UNCHANGED <<env, req, files, unlinks, easSigner, ledger, parseVars, procVars>>

\* Lines 107-121: the handler up to its first await.
UploadImage(r) ==
  /\ pc[r] = "entry"
  /\ \/ /\ ~req[r].file
        /\ responses' = [responses EXCEPT ![r] = Append(@, NoFileResponse)]
        /\ pc' = [pc EXCEPT ![r] = "done"]
        /\ UNCHANGED <<local, calls, stages, failed>>
     \/ /\ req[r].file
        /\ ~JSONParse(req[r].coord.body).ok
        /\ stages' = [stages EXCEPT ![r] = Append(@, "Received")]
        /\ Catch(r, "validate", "Unexpected token in JSON")
        /\ UNCHANGED <<local, calls>>
     \/ /\ req[r].file
        /\ JSONParse(req[r].coord.body).ok
        /\ stages' = [stages EXCEPT ![r] = Append(@, "Received")]
        /\ local' = [local EXCEPT ![r].parsedCoordinates =
                       JSONParse(req[r].coord.body).val]
        /\ calls' = [calls EXCEPT ![r].store = @ + 1]
        /\ pc' = [pc EXCEPT ![r] = "pin"]
        /\ UNCHANGED <<failed, responses>>
  /\ UNCHANGED <<env, req, files, unlinks, easSigner, ledger, parseVars, procVars>>

\* Lines 121-142: pinFileToIPFS settles; the inference call is made.
PinReturn(r) ==
  /\ pc[r] = "pin"
  /\ \E outcome \in PinOutcomes :
       LET pinned == pinFileToIPFS(outcome)
       IN IF pinned.threw
          THEN /\ Catch(r, "store", pinned.message)
               /\ UNCHANGED <<local, calls, stages>>
          ELSE /\ local' = [local EXCEPT ![r].ipfsUrl = pinned.url]
               /\ stages' = [stages EXCEPT ![r] = Append(@, "Stored")]
               /\ calls' = [calls EXCEPT ![r].infer = @ + 1]
               /\ pc' = [pc EXCEPT ![r] = "describe"]
               /\ UNCHANGED <<failed, responses>>
  /\ UNCHANGED <<env, req, files, unlinks, easSigner, ledger, parseVars, procVars>>

\* Lines 125-156: the inference call settles; the text is parsed, the
\* signer is made and bound to eas, and the handler awaits eas.connect.
DescribeReturn(r) ==
  /\ pc[r] = "describe"
  /\ \/ /\ \E m \in InferFailures : Catch(r, "describe", m)
        /\ UNCHANGED <<local, stages, easSigner>>
     \/ /\ \E completion \in Completions :
             /\ ~completion.hasChoices
             /\ local' = [local EXCEPT ![r].completion = <<completion>>]
             /\ Catch(r, "describe",
                      "Cannot read properties of undefined (reading '0')")
        /\ UNCHANGED <<stages, easSigner>>
     \/ \E completion \in Completions :
          /\ completion.hasChoices
          /\ IF parseAIResponse(ResponseText(completion)).threw
             THEN /\ local' =
                       [local EXCEPT
                          ![r].completion = <<completion>>,
                          ![r].responseText = ResponseText(completion)]
                  /\ stages' = [stages EXCEPT ![r] = Append(@, "Described")]
                  /\ Catch(r, "parse", "responseText.split is not a function")
                  /\ UNCHANGED easSigner
             ELSE /\ local' =
                       [local EXCEPT
                          ![r].completion = <<completion>>,
                          ![r].responseText = ResponseText(completion),
                          ![r].schemaValues =
                            SchemaValues(ResponseText(completion),
                                         local[r].parsedCoordinates)]
                  /\ stages' =
                       [stages EXCEPT ![r] = @ \o <<"Described", "Parsed">>]
                  /\ IF env.PRIVATE_KEY
                     THEN /\ easSigner' = [key |-> TRUE, req |-> r]
                          /\ pc' = [pc EXCEPT ![r] = "connect"]
                          /\ UNCHANGED <<failed, responses>>
                     ELSE /\ Catch(r, "sign", "invalid private key")
                          /\ UNCHANGED easSigner
  /\ UNCHANGED <<env, req, files, unlinks, calls, ledger, parseVars, procVars>>

\* Lines 156-190: after the await of eas.connect the record is encoded and
\* eas.attest is called with the signer eas is connected to.
ConnectResume(r) ==
  /\ pc[r] = "connect"
  /\ LET encoded == encodeData(local[r].schemaValues)
     IN IF encoded.threw
        THEN /\ Catch(r, "encode", "invalid string value")
             /\ UNCHANGED <<local, calls, stages>>
        ELSE /\ local' = [local EXCEPT ![r].encodedData = encoded.data,
                                       ![r].sentWith = easSigner]
             /\ stages' = [stages EXCEPT ![r] = Append(@, "Encoded")]
             /\ calls' = [calls EXCEPT ![r].submit = @ + 1]
             /\ pc' = [pc EXCEPT ![r] = "attest"]
             /\ UNCHANGED <<failed, responses>>
  /\ UNCHANGED <<env, req, files, unlinks, easSigner, ledger, parseVars, procVars>>

\* Lines 182-192: eas.attest settles: the transaction was broadcast, or the
\* submission was refused; tx.wait() is called on a broadcast transaction.
AttestReturn(r) ==
  /\ pc[r] = "attest"
  /\ \/ /\ \E m \in SubmitFailures : Catch(r, "submit", m)
        /\ UNCHANGED <<calls, stages, ledger>>
     \/ /\ ledger' = Append(ledger,
                              [req |-> r, recipient |-> req[r].recipient,
                               data |-> local[r].encodedData,
                               signer |-> local[r].sentWith])
        /\ stages' = [stages EXCEPT ![r] = Append(@, "Submitted")]
        /\ calls' = [calls EXCEPT ![r].wait = @ + 1]
        /\ pc' = [pc EXCEPT ![r] = "wait"]
        /\ UNCHANGED <<failed, responses>>
  /\ UNCHANGED <<env, req, local, files, unlinks, easSigner, parseVars, procVars>>

\* A handler that submits the attestation again when tx.wait() rejects.
WaitReturnResubmits(r) ==
  /\ pc[r] = "wait"
  /\ \/ /\ calls[r].submit < 2
        /\ ledger' = Append(ledger,
                             [req |-> r, recipient |-> req[r].recipient,
                              data |-> local[r].encodedData,
                              signer |-> local[r].sentWith])
        /\ calls' = [calls EXCEPT ![r].submit = @ + 1]
        /\ UNCHANGED <<local, stages, files, unlinks, failed, responses, pc>>
     \/ /\ \E uid \in AttestationUIDs :
             LET l == [local[r] EXCEPT !.attestationUID = uid]
             IN /\ local' = [local EXCEPT ![r] = l]
                /\ responses' =
                     [responses EXCEPT ![r] = Append(@, SuccessResponse(l))]
        /\ stages' = [stages EXCEPT ![r] = Append(@, "Confirmed")]
        /\ files' = unlinkSync(files, r).files
        /\ unlinks' = [unlinks EXCEPT ![r] = @ + 1]
        /\ pc' = [pc EXCEPT ![r] = "done"]
        /\ UNCHANGED <<failed, calls, ledger>>
  /\ UNCHANGED <<env, req, easSigner, parseVars, procVars>>

\* Lines 192-203: tx.wait() settles; on confirmation the temporary file is
\* deleted and the success response is sent.  tx.wait() has no timeout of
\* its own: while the ledger does not answer, this action does not happen.
WaitReturn(r) ==
  /\ pc[r] = "wait"
  /\ \/ /\ \E m \in ConfirmFailures : Catch(r, "confirm", m)
        /\ UNCHANGED <<local, stages, files, unlinks>>
     \/ \E uid \in AttestationUIDs :
          LET l == [local[r] EXCEPT !.attestationUID = uid]
              removed == unlinkSync(files, r)
          IN /\ local' = [local EXCEPT ![r] = l]
             /\ stages' = [stages EXCEPT ![r] = Append(@, "Confirmed")]
             /\ \/ /\ ~removed.threw
                   /\ files' = removed.files
                   /\ unlinks' = [unlinks EXCEPT ![r] = @ + 1]
                   /\ responses' =
                        [responses EXCEPT ![r] = Append(@, SuccessResponse(l))]
                   /\ pc' = [pc EXCEPT ![r] = "done"]
                   /\ UNCHANGED failed
                \/ /\ \E m \in UnlinkFailures : Catch(r, "release", m)
                   /\ UNCHANGED <<files, unlinks>>
  /\ UNCHANGED <<env, req, calls, easSigner, ledger, parseVars, procVars>>

Next ==
  \/ \E r \in DOMAIN pc : UploadImage(r)
  \/ \E r \in DOMAIN pc : PinReturn(r)
  \/ \E r \in DOMAIN pc : DescribeReturn(r)
  \/ \E r \in DOMAIN pc : ConnectResume(r)
  \/ \E r \in DOMAIN pc : AttestReturn(r)
  \/ \E r \in DOMAIN pc : WaitReturn(r)

\* One request to /upload-image.
Init ==
  /\ InitFor({1})
  /\ parseInput = JUndefined
  /\ parseOutput = <<>>
  /\ ProcIdle

Spec == Init /\ [][Next]_vars

\* The scheduling of a request once the route has been entered.  The
\* continuation of await eas.connect(signer) is resumed by the event loop;
\* the inference call and the submission are taken to settle.  axios.post
\* (47-56) is given no timeout and tx.wait() (192) is called without one,
\* so nothing makes the content store or the confirmation answer: PinReturn
\* and WaitReturn are not fair.
LiveSpec ==
  /\ Init
  /\ [][Next]_vars
  /\ WF_vars(\E r \in DOMAIN pc : DescribeReturn(r))
  /\ WF_vars(\E r \in DOMAIN pc : ConnectResume(r))
  /\ WF_vars(\E r \in DOMAIN pc : AttestReturn(r))

\* Two requests to /upload-image in flight at once, each with an image and
\* well-formed coordinates; their handlers interleave at the awaits.
ConcInit ==
  /\ InitFor({1, 2})
  /\ env.PRIVATE_KEY
  /\ \A r \in {1, 2} :
       /\ req[r].file
       /\ req[r].recipient
       /\ req[r].coord.body =
            JStr(<<"[","\"","1","2","\"",",","\"","7","2","\"","]">>)
  /\ parseInput = JUndefined
  /\ parseOutput = <<>>
  /\ ProcIdle

ConcSpec == ConcInit /\ [][Next]_vars

(***************************************************************************)
(* The /process-image route: the image is read, described by the inference *)
(* service and the description answered; a finally block deletes the file. *)
(***************************************************************************)
\* "No description generated."
ProcFallbackText ==
  <<"N","o"," ","d","e","s","c","r","i","p","t","i","o","n"," ","g","e","n","e","r","a","t","e","d",".">>

\* What choices[0].text can be: absent, "", a text with whitespace around
\* it, or a value that is not a string.
ProcTexts ==
  {JUndefined, JStr(<<>>), JNum(<<"7">>),
   JStr(<<" ","A"," ","p","a","r","t","y","\n">>)}

\* response.data of the post: without a choices array, with an empty one,
\* or with one choice.
ProcAnswers ==
  {[hasChoices |-> FALSE, choices |-> <<>>],
   [hasChoices |-> TRUE, choices |-> <<>>]} \cup
  {[hasChoices |-> TRUE, choices |-> <<[text |-> t]>>] : t \in ProcTexts}

\* The messages fs.readFileSync and axios.post fail with.
ReadFailures == {"EACCES: permission denied, open"}
PostFailures == {"Network Error", "Request failed with status code 404"}

\* response.data.choices[0]?.text || "No description generated."
Description(answer) ==
  IF answer.choices = <<>> THEN JStr(ProcFallbackText)
  ELSE IF Truthy(answer.choices[1].text) THEN answer.choices[1].text
  ELSE JStr(ProcFallbackText)

ProcNoFileResponse ==
  [status |-> 400, body |-> [error |-> "No image file uploaded."]]

ProcErrorResponse(message) ==
  [status |-> 500,
   body |-> [error |-> "Failed to process image", details |-> message]]

ProcSuccessResponse(description) ==
  [status |-> 200,
   body |-> [event_name |-> "AI-generated Event",
             event_description |-> Trim(description.v),
             description |-> Trim(description.v)]]

\* The finally block of a request that has a file, after the response rs
\* was sent: fs.unlinkSync(req.file.path) removes the file, or throws and
\* the error leaves the handler uncaught.
Finally(p, rs) ==
  LET removed == unlinkSync(uploads, p)
  IN \/ /\ ~removed.threw
        /\ uploads' = removed.files
        /\ proc' = [proc EXCEPT ![p].pc = "done",
                                ![p].responses = @ \o rs,
                                ![p].unlinkCalls = @ + 1,
                                ![p].deleted = @ + 1]
     \/ /\ \E m \in IF removed.threw
                    THEN {"ENOENT: no such file or directory, unlink"}
                    ELSE UnlinkFailures :
             proc' = [proc EXCEPT ![p].pc = "done",
                                  ![p].responses = @ \o rs,
                                  ![p].unlinkCalls = @ + 1,
                                  ![p].escaped = m]
        /\ UNCHANGED uploads

\* Lines 14-27: the handler up to its await.
ProcessImage(p) ==
  /\ proc[p].pc = "entry"
  /\ \/ /\ ~proc[p].file
        /\ proc' = [proc EXCEPT ![p].pc = "done",
                                ![p].responses = @ \o <<ProcNoFileResponse>>]
        /\ UNCHANGED uploads
     \/ /\ proc[p].file
        /\ \E m \in ReadFailures : Finally(p, <<ProcErrorResponse(m)>>)
     \/ /\ proc[p].file
        /\ proc' = [proc EXCEPT ![p].pc = "post"]
        /\ UNCHANGED uploads
  /\ UNCHANGED <<handlerVars, parseVars>>

\* Lines 27-64: axios.post settles; the description is answered, or the
\* error is; the finally block runs.
PostReturn(p) ==
  /\ proc[p].pc = "post"
  /\ \/ \E m \in PostFailures : Finally(p, <<ProcErrorResponse(m)>>)
     \/ \E answer \in ProcAnswers :
          IF ~answer.hasChoices
          THEN Finally(p, <<ProcErrorResponse(
                            "Cannot read properties of undefined (reading '0')")>>)
          ELSE IF Description(answer).t # "string"
          THEN Finally(p, <<ProcErrorResponse(
                            "description.trim is not a function")>>)
          ELSE Finally(p, <<ProcSuccessResponse(Description(answer))>>)
  /\ UNCHANGED <<handlerVars, parseVars>>

ProcRequests == {1, 2}

\* Two requests to /process-image have arrived, each with or without an
\* image; multer has stored each image under a name of its own.
ProcInit ==
  /\ proc \in [ProcRequests ->
                 {[file |-> f, pc |-> "entry", responses |-> <<>>,
                   unlinkCalls |-> 0, deleted |-> 0, escaped |-> "none"] :
                    f \in BOOLEAN}]
  /\ uploads = {p \in ProcRequests : proc[p].file}
  /\ HandlerIdle
  /\ parseInput = JUndefined
  /\ parseOutput = <<>>

ProcNext ==
  \/ \E p \in DOMAIN proc : ProcessImage(p)
  \/ \E p \in DOMAIN proc : PostReturn(p)

ProcessSpec == ProcInit /\ [][ProcNext]_vars

(***************************************************************************)
(* Properties of the /upload-image handler, checked under Spec.            *)
(***************************************************************************)
Requests == DOMAIN pc

Done(r) == pc[r] = "done"

\* The number of attestations request r has broadcast.
Broadcasts(r) == Cardinality({i \in DOMAIN ledger : ledger[i].req = r})

\* C1: for every request that received a file, the temporary file is
\* deleted exactly once by the time the request has ended, whatever step
\* failed: never twice, and never left behind.
C1_ReleasedExactlyOnce ==
  \A r \in Requests :
    req[r].file =>
      /\ unlinks[r] <= 1
      /\ Done(r) => (unlinks[r] = 1 /\ r \notin files)

\* The number of pipeline steps completed when the named step throws.
CompletedWhenFailing ==
  [validate |-> 1, store |-> 1, describe |-> 2, parse |-> 3, sign |-> 4,
   encode |-> 4, submit |-> 5, confirm |-> 6, release |-> 7]

\* C2: the steps of one request are completed only in the order Received,
\* Stored, Described, Parsed, Encoded, Submitted, Confirmed; a collaborator
\* is called only after the steps before it have succeeded; and once a step
\* has failed the request has ended, with exactly the steps before the
\* failing one completed, so no later step (no ledger submission) starts.
C2_StagesInOrder ==
  \A r \in Requests :
    /\ stages[r] = SubSeq(StageOrder, 1, Len(stages[r]))
    /\ calls[r].store > 0 => Len(stages[r]) >= 1
    /\ calls[r].infer > 0 => Len(stages[r]) >= 2
    /\ calls[r].submit > 0 => Len(stages[r]) >= 5
    /\ calls[r].wait > 0 => Len(stages[r]) >= 6
    /\ Broadcasts(r) > 0 => Len(stages[r]) >= 6
    /\ failed[r] # NoFailure =>
         /\ Done(r)
         /\ Len(stages[r]) = CompletedWhenFailing[failed[r].stage]

\* C2's case: the encoder threw, and the request ended without a submission.
C2_Witness ==
  \E r \in Requests :
    /\ failed[r].stage = "encode"
    /\ Done(r)
    /\ stages[r] = <<"Received", "Stored", "Described", "Parsed">>
    /\ calls[r] = [store |-> 1, infer |-> 1, submit |-> 0, wait |-> 0]
    /\ Broadcasts(r) = 0

\* The failure response every error is answered with.
IsGenericFailure(response) ==
  /\ response.status = 500
  /\ DOMAIN response.body = {"success", "error"}

\* C3: when the submission was broadcast and its confirmation timed out,
\* the response is a distinct outcome and not the generic 500 failure that
\* a refused submission is answered with.
C3_AmbiguousSubmissionDistinct ==
  \A r \in Requests :
    (failed[r].stage = "confirm" /\ failed[r].message = "timeout") =>
      \A i \in DOMAIN responses[r] : ~IsGenericFailure(responses[r][i])

\* The caller's input is missing or malformed.
MalformedInput(r) ==
  ~req[r].file \/ ~req[r].coord.valid \/ ~req[r].recipient

DownstreamStages == {"store", "describe", "encode", "submit", "confirm"}

\* C4: the status of the response follows the outcome: 200 only when the
\* pipeline reached Confirmed, 400 when the caller's input is missing or
\* malformed, 500 when a downstream step failed on well-formed input.
C4_StatusByOutcome ==
  \A r \in Requests :
    \A i \in DOMAIN responses[r] :
      /\ responses[r][i].status = 200 => Len(stages[r]) = 7
      /\ MalformedInput(r) => responses[r][i].status = 400
      /\ (~MalformedInput(r) /\ failed[r].stage \in DownstreamStages) =>
           responses[r][i].status = 500

\* C5: when the storage step fails the response is a failure response, no
\* later step is run, and the temporary file has been removed when the
\* request has ended.
C5_StorageFailureCleansUp ==
  \A r \in Requests :
    (failed[r].stage = "store" /\ Done(r)) =>
      /\ Len(responses[r]) = 1
      /\ ~responses[r][1].body.success
      /\ calls[r].infer = 0 /\ calls[r].submit = 0 /\ calls[r].wait = 0
      /\ r \notin files

\* C6: within one request each collaborator is called at most once, and at
\* most one attestation is broadcast, whatever step fails.
C6_NoStageTwice ==
  \A r \in Requests :
    /\ calls[r].store <= 1
    /\ calls[r].infer <= 1
    /\ calls[r].submit <= 1
    /\ calls[r].wait <= 1
    /\ Broadcasts(r) <= 1

\* C6's case: every collaborator was called, the confirmation failed, and
\* the request ended with one broadcast.
C6_Witness ==
  \E r \in Requests :
    /\ Done(r)
    /\ failed[r].stage = "confirm"
    /\ calls[r] = [store |-> 1, infer |-> 1, submit |-> 1, wait |-> 1]
    /\ Broadcasts(r) = 1

\* C9: from the parsed step on, the record's location_coordinates are the
\* coordinates the caller encoded, whatever text the inference returned: in
\* the record, in the encoded payload and in the success response.
C9_CoordinatesUnchanged ==
  \A r \in Requests :
    /\ Len(stages[r]) >= 4 =>
         local[r].schemaValues.location_coordinates = req[r].coord.value
    /\ Len(stages[r]) >= 5 =>
         local[r].encodedData[4].value = req[r].coord.value
    /\ \A i \in DOMAIN ledger :
         ledger[i].req = r => ledger[i].data[4].value = req[r].coord.value
    /\ \A i \in DOMAIN responses[r] :
         responses[r][i].status = 200 =>
           responses[r][i].body.schemaValues.location_coordinates =
             req[r].coord.value

\* C9's case: a success response for coordinates other than the parser's
\* default pair, after a text that names all three fields.
C9_Witness ==
  \E r \in Requests :
    /\ Done(r)
    /\ Len(responses[r]) = 1
    /\ responses[r][1].status = 200
    /\ local[r].responseText = JStr(ScenarioAText)
    /\ req[r].coord.value = JArr(<<JStr(<<"-","3",".","5">>), JStr(<<"8">>)>>)
    /\ responses[r][1].body.schemaValues.location_coordinates =
         req[r].coord.value

(***************************************************************************)
(* Properties of parseAIResponse, checked under ParseSpec.  The lines of a *)
(* text, their trimmed form and their labels are stated here from the      *)
(* positions of the characters, not by the parser's own operators.         *)
(***************************************************************************)
TextFields == {"event_name", "event_description", "occasion"}

RecordFields == TextFields \cup {"location_coordinates", "memory_description"}

FieldLabel ==
  [event_name |-> LabelEventName,
   event_description |-> LabelEventDescription,
   occasion |-> LabelOccasion]

Parsed == parseOutput # <<>>

LineBreaks(s) == {i \in 1..Len(s) : s[i] = "\n"}

LineCount(s) == Cardinality(LineBreaks(s)) + 1

\* The position of the k-th line feed of s; 0 and Len(s) + 1 bound the text.
BreakAt(s, k) ==
  IF k = 0 THEN 0
  ELSE IF k = LineCount(s) THEN Len(s) + 1
  ELSE CHOOSE i \in LineBreaks(s) :
         Cardinality({j \in LineBreaks(s) : j < i}) = k - 1

\* The k-th line of s.
LineOf(s, k) == SubSeq(s, BreakAt(s, k - 1) + 1, BreakAt(s, k) - 1)

\* s from its first to its last character that is not whitespace.
Stripped(s) ==
  LET keep == {i \in 1..Len(s) : ~IsWhitespace(s[i])}
  IN IF keep = {} THEN <<>>
     ELSE SubSeq(s, CHOOSE i \in keep : \A j \in keep : i <= j,
                    CHOOSE i \in keep : \A j \in keep : j <= i)

HasLabel(line, label) ==
  /\ Len(line) >= Len(label)
  /\ \A k \in 1..Len(label) : line[k] = label[k]

\* The lines of s that, trimmed, start with the label of field f.
Labelled(s, f) ==
  {k \in 1..LineCount(s) : HasLabel(Stripped(LineOf(s, k)), FieldLabel[f])}

\* What follows the label of field f on line k of s, trimmed.
Remainder(s, k, f) ==
  LET line == Stripped(LineOf(s, k))
  IN Stripped(SubSeq(line, Len(FieldLabel[f]) + 1, Len(line)))

\* C7: for every argument, a string or not, the parser returns without
\* throwing, and the record it returns has all five fields, none empty.
C7_ParserTotal ==
  Parsed =>
    /\ ~parseOutput[1].threw
    /\ DOMAIN parseOutput[1].value = RecordFields
    /\ \A f \in TextFields \cup {"memory_description"} :
         parseOutput[1].value[f] # <<>>
    /\ parseOutput[1].value.location_coordinates.t = "array"
    /\ parseOutput[1].value.location_coordinates.v # <<>>

\* C7's case: the empty text is parsed to the defaults.
C7_Witness ==
  /\ Parsed
  /\ parseInput = JStr(<<>>)
  /\ \A f \in TextFields : parseOutput[1].value[f] = defaultValues[f]

\* C8 as stated: a text field is the trimmed remainder of some line that
\* carries its label when there is such a line, and its default when there
\* is none.
C8_FieldFromLabelledLine ==
  (Parsed /\ parseInput.t = "string") =>
    \A f \in TextFields :
      IF Labelled(parseInput.v, f) = {}
      THEN parseOutput[1].value[f] = defaultValues[f]
      ELSE \E k \in Labelled(parseInput.v, f) :
             parseOutput[1].value[f] = Remainder(parseInput.v, k, f)

\* C8, amended: a text field is the trimmed remainder of the last line that
\* carries its label when there is such a line and that remainder is not
\* empty, and its default otherwise; no other line has any influence.
C8_FieldFromLastLabelledLine ==
  (Parsed /\ parseInput.t = "string") =>
    \A f \in TextFields :
      LET labelled == Labelled(parseInput.v, f)
          last == CHOOSE k \in labelled : \A j \in labelled : j <= k
      IN parseOutput[1].value[f] =
           IF labelled = {} THEN defaultValues[f]
           ELSE IF Remainder(parseInput.v, last, f) = <<>>
           THEN defaultValues[f]
           ELSE Remainder(parseInput.v, last, f)

\* C8's case: two lines carry the same label and the second one's trimmed
\* remainder is the field's value.
C8_Witness ==
  /\ Parsed
  /\ parseInput =
       JStr(LabelEventName \o <<"D","e","m","o","\n">> \o
            LabelEventName \o <<" ","A"," ","B","\t">>)
  /\ parseOutput[1].value.event_name = <<"A"," ","B">>
  /\ parseOutput[1].value.occasion = defaultValues.occasion

\* C10: for every argument, the fallback path included, the record's
\* memory_description is the one fixed description of provenance.
C10_MemoryDescriptionFixed ==
  Parsed =>
    parseOutput[1].value.memory_description = GeneratedMemoryDescription

\* C20: when several lines carry the same label, the last of them alone
\* determines the field: its trimmed remainder when that is not empty, and
\* the field's default when it is empty, whatever the earlier lines held.
C20_LastDuplicateDecides ==
  (Parsed /\ parseInput.t = "string") =>
    \A f \in TextFields :
      Cardinality(Labelled(parseInput.v, f)) >= 2 =>
        LET last == CHOOSE k \in Labelled(parseInput.v, f) :
                      \A j \in Labelled(parseInput.v, f) : j <= k
            rest == Remainder(parseInput.v, last, f)
        IN /\ rest # <<>> => parseOutput[1].value[f] = rest
           /\ rest = <<>> => parseOutput[1].value[f] = defaultValues[f]

\* C20's case: "Event Name:Demo\nEvent Name:" gives the default name
\* although the first line named the event.
C20_Witness ==
  /\ Parsed
  /\ parseInput =
       JStr(LabelEventName \o <<"D","e","m","o","\n">> \o LabelEventName)
  /\ Labelled(parseInput.v, "event_name") = {1, 2}
  /\ Remainder(parseInput.v, 1, "event_name") = <<"D","e","m","o">>
  /\ parseOutput[1].value.event_name = defaultValues.event_name

(***************************************************************************)
(* Further properties of the /upload-image handler, checked under Spec.    *)
(***************************************************************************)
\* The inference service answered with a choices array but without content
\* to use: no choice, no message, or a content that is null or "".
NoUsableContent(completion) ==
  /\ completion.hasChoices
  /\ \/ completion.choices = <<>>
     \/ ~completion.choices[1].hasMessage
     \/ completion.choices[1].content \in {JNull, JUndefined, JStr(<<>>)}

\* C11: when the inference service answers without usable content, the
\* describe step does not fail: the placeholder text goes to the parser,
\* the record's event_name, event_description and occasion are the
\* defaults, and the pipeline goes on.
C11_NoContentDegradesToDefaults ==
  \A r \in Requests :
    (local[r].completion # <<>> /\ NoUsableContent(local[r].completion[1])) =>
      /\ failed[r].stage \notin {"describe", "parse"}
      /\ Len(stages[r]) >= 4
      /\ local[r].responseText = JStr(NoDescriptionText)
      /\ \A f \in {"event_name", "event_description", "occasion"} :
           local[r].schemaValues[f] = defaultValues[f]

\* C11's case: the content was null and the request was confirmed and
\* answered with the defaults.
C11_Witness ==
  \E r \in Requests :
    /\ local[r].completion # <<>>
    /\ local[r].completion[1].hasChoices
    /\ local[r].completion[1].choices # <<>>
    /\ local[r].completion[1].choices[1].content = JNull
    /\ Len(stages[r]) = 7
    /\ Len(responses[r]) = 1
    /\ responses[r][1].status = 200
    /\ responses[r][1].body.schemaValues.event_name = defaultValues.event_name

\* C12: every step failure is answered by a failure response, never a
\* success, and the response names both the step that failed and the cause.
C12_FailureNamesStageAndCause ==
  \A r \in Requests :
    failed[r] # NoFailure =>
      /\ Len(responses[r]) = 1
      /\ responses[r][1].status # 200
      /\ ~responses[r][1].body.success
      /\ "error" \in DOMAIN responses[r][1].body
      /\ responses[r][1].body.error = failed[r].message
      /\ "stage" \in DOMAIN responses[r][1].body
      /\ responses[r][1].body.stage = failed[r].stage

\* C15: once the ledger has confirmed a request's attestation, the request
\* is answered 200 with that attestation identifier, whatever happens after
\* the confirmation.
C15_ConfirmedMeansSuccess ==
  \A r \in Requests :
    (Done(r) /\ Len(stages[r]) = 7) =>
      /\ Len(responses[r]) = 1
      /\ responses[r][1].status = 200
      /\ responses[r][1].body.attestationUID = local[r].attestationUID

\* C16: a success response is sent only after the confirmation returned;
\* its storage URL is the one the store step returned, its event record is
\* the record encoded into the submitted payload, and its attestation
\* identifier is the value the wait returned.
C16_SuccessReportsWhatWasDone ==
  \A r \in Requests : \A i \in DOMAIN responses[r] :
    responses[r][i].status = 200 =>
      LET body == responses[r][i].body
      IN /\ stages[r] = StageOrder
         /\ calls[r].wait = 1
         /\ body.ipfsUrl = local[r].ipfsUrl
         /\ \E h \in IpfsHashes : body.ipfsUrl = JStr(GatewayPrefix \o h)
         /\ Broadcasts(r) = 1
         /\ \A k \in DOMAIN ledger :
              ledger[k].req = r =>
                ledger[k].data = encodeData(body.schemaValues).data
         /\ body.attestationUID = local[r].attestationUID
         /\ body.attestationUID \in AttestationUIDs

\* C16's case: a success response whose record carries a parsed event name
\* and the request's coordinates, the same record that is on the ledger.
C16_Witness ==
  \E r \in Requests :
    /\ Len(responses[r]) = 1
    /\ responses[r][1].status = 200
    /\ responses[r][1].body.schemaValues.event_name # defaultValues.event_name
    /\ responses[r][1].body.schemaValues.location_coordinates
         # defaultValues.location_coordinates
    /\ \E k \in DOMAIN ledger :
         /\ ledger[k].req = r
         /\ ledger[k].data[1].value =
              JStr(responses[r][1].body.schemaValues.event_name)

\* C17: validation comes before every external effect: a request without
\* an image file, or whose coordinates do not parse as JSON, makes no call
\* to the content store, the inference service or the ledger.
C17_ValidationBeforeEffects ==
  \A r \in Requests :
    (~req[r].file \/ ~JSONParse(req[r].coord.body).ok) =>
      /\ calls[r] = [store |-> 0, infer |-> 0, submit |-> 0, wait |-> 0]
      /\ Broadcasts(r) = 0
      /\ local[r].ipfsUrl = JUndefined

\* C17's case: a request with a file and unparsable coordinates has ended
\* with a 500 response and no call made.
C17_Witness ==
  \E r \in Requests :
    /\ Done(r)
    /\ req[r].file
    /\ ~JSONParse(req[r].coord.body).ok
    /\ responses[r] = <<ErrorResponse("Unexpected token in JSON")>>
    /\ calls[r].store = 0

C13_EveryRequestAnswered ==
  (\A r \in Requests : pc[r] # "entry") ~>
    (\A r \in Requests : Done(r) /\ Len(responses[r]) = 1)

(***************************************************************************)
(* Two requests at once, checked under ConcSpec.                           *)
(***************************************************************************)
\* C14: concurrent requests are independent: no request writes state that
\* another reads, so the signer a request's attestation is sent with is the
\* signer that request bound, whatever the interleaving.
C14_OwnSignerBinding ==
  \A r \in Requests :
    /\ Len(stages[r]) >= 5 => local[r].sentWith = [key |-> TRUE, req |-> r]
    /\ \A k \in DOMAIN ledger : ledger[k].signer.req = ledger[k].req

(***************************************************************************)
(* The /process-image route, checked under ProcessSpec.                    *)
(***************************************************************************)
\* C19: a /process-image request that uploaded a file has that file
\* deleted exactly once when its handler has ended, on the success path and
\* on every failure path, and gets exactly one response; a request without
\* a file is answered 400 and no deletion is attempted.
C19_ProcessImageCleansUp ==
  \A p \in DOMAIN proc :
    proc[p].pc = "done" =>
      /\ Len(proc[p].responses) = 1
      /\ proc[p].file =>
           /\ proc[p].deleted = 1
           /\ p \notin uploads
      /\ ~proc[p].file =>
           /\ proc[p].responses = <<ProcNoFileResponse>>
           /\ proc[p].unlinkCalls = 0

====
